---------------------------- MODULE Spec2Model ----------------------------
(***************************************************************************)
(* A model of starfish's Codebook (src/starfish/codebook.py): the          *)
(* constructors from_code_array / from_json / synthetic_one_hot_codebook,  *)
(* the serializer to_json, the normalization helper and the two decoders.  *)
(*                                                                         *)
(* Every function of the source is an operator computed the way the code   *)
(* computes it; every specification draws the inputs of one call from a    *)
(* bounded set in its initial states and applies the call in its actions.  *)
(***************************************************************************)
EXTENDS Integers, Sequences, FiniteSets, TLC

(***************************************************************************)
(* Numbers.  Python floats and JSON numbers are modelled as exact          *)
(* rationals <<numerator, denominator>> in lowest terms, denominator > 0.  *)
(* NaN (the result of 0/0 in numpy) is a value of its own.                 *)
(***************************************************************************)
RECURSIVE GCD(_, _)
GCD(a, b) == IF b = 0 THEN a ELSE GCD(b, a % b)

AbsInt(x) == IF x < 0 THEN 0 - x ELSE x

Rat(n, d) ==
    LET g == GCD(AbsInt(n), d)
    IN  IF g = 0 THEN <<0, 1>> ELSE <<n \div g, d \div g>>

Float(i) == <<i, 1>>

NaN == <<0, 0>>

IsNaN(x) == x[2] = 0

RatAdd(x, y) == Rat(x[1] * y[2] + y[1] * x[2], x[2] * y[2])

RatSub(x, y) == Rat(x[1] * y[2] - y[1] * x[2], x[2] * y[2])

RatMul(x, y) == Rat(x[1] * y[1], x[2] * y[2])

RatLess(x, y) == x[1] * y[2] < y[1] * x[2]

RatLeq(x, y) == x[1] * y[2] <= y[1] * x[2]

RatAbs(x) == <<AbsInt(x[1]), x[2]>>

RatMax(x, y) == IF RatLess(x, y) THEN y ELSE x

\* numpy's true division of two finite non-negative numbers: 0/0 is NaN.
\* (x/0 with x # 0 is inf; it cannot arise below, where a zero norm means
\* an all-zero vector.)
RatDiv(x, y) ==
    IF y[1] = 0 THEN NaN ELSE Rat(x[1] * y[2], x[2] * y[1])

\* The cast numpy applies when a number is stored into a uint8 array:
\* truncation toward zero, then wrap-around modulo 2^8.
ToUint8(v) == (v[1] \div v[2]) % 256

Max(S) == CHOOSE x \in S : \A y \in S : y <= x

RECURSIVE SumSeq(_)
SumSeq(s) == IF s = <<>> THEN <<0, 1>> ELSE RatAdd(Head(s), SumSeq(Tail(s)))

RECURSIVE MaxSeq(_)
MaxSeq(s) == IF s = <<>> THEN <<0, 1>> ELSE RatMax(Head(s), MaxSeq(Tail(s)))

\* All sequences over S of length at most n.
SeqUpTo(S, n) == UNION {[1..k -> S] : k \in 0..n}

(***************************************************************************)
(* Optional arguments: None is the empty tuple, a given value x is <<x>>.  *)
(***************************************************************************)
None == <<>>

Some(x) == <<x>>

(***************************************************************************)
(* Gene labels.  A label is a Python object: a string, or a uuid.UUID (the *)
(* default of synthetic_one_hot_codebook).  str() of a label is the string *)
(* with the same text; a UUID never equals a string.                       *)
(***************************************************************************)
Str(s) == [kind |-> "str", id |-> s]

Uuid(s) == [kind |-> "uuid", id |-> s]

str(label) == [kind |-> "str", id |-> label.id]

\* The sentinel written by the decoders for an unassigned feature.
NoneGene == Str("None")

(***************************************************************************)
(* Codebook: gene labels in stored order and a (gene, c, h) tensor.        *)
(***************************************************************************)
Cells(n_genes, nc, nh) == (1..n_genes) \X (0..(nc - 1)) \X (0..(nh - 1))

_empty_codebook(code_names, nc, nh) ==
    [gene_name |-> code_names, n_ch |-> nc, n_hyb |-> nh,
     data |-> [x \in Cells(Len(code_names), nc, nh) |-> 0]]

NoCodebook == _empty_codebook(<<>>, 0, 0)

code_length(cb) == cb.n_ch * cb.n_hyb

\* Outcomes of a call: a returned value or a raised exception.
NoError == [type |-> "none"]

Pending == [status |-> "pending", error |-> NoError, value |-> NoCodebook]

Returned(cb) == [status |-> "returned", error |-> NoError, value |-> cb]

Raised(err) == [status |-> "raised", error |-> err, value |-> NoCodebook]

KeyError(key) == [type |-> "KeyError", key |-> key]

\* The two messages of lines 222-228, by the words they print: the value the
\* code "requires" and the argument named after "provided".
HybRangeError == [type |-> "ValueError", requires |-> "hybridization", provided |-> "n_hyb"]

ChRangeError == [type |-> "ValueError", requires |-> "channel", provided |-> "n_hyb"]

MissingFieldsError(missing) == [type |-> "ValueError", missing_fields |-> missing]

(***************************************************************************)
(* from_code_array                                                         *)
(***************************************************************************)
HasField(code, f) == f \in DOMAIN code

AllEntries(code_array) ==
    UNION {{code_array[i].codeword[j] : j \in 1..Len(code_array[i].codeword)}
           : i \in 1..Len(code_array)}

max_hyb(code_array) == Max({0} \cup {e.h : e \in AllEntries(code_array)})

max_ch(code_array) == Max({0} \cup {e.c : e \in AllEntries(code_array)})

required_fields == {"codeword", "gene_name"}

missing_fields(code) == required_fields \ DOMAIN code

\* code_data.loc[gene, c, h] = v : label-based assignment, which writes every
\* row whose label equals gene, the value cast to the tensor's dtype (uint8).
LocAssign(cb, gene, entry) ==
    [cb EXCEPT !.data =
        [x \in DOMAIN cb.data |->
            IF cb.gene_name[x[1]] = gene /\ x[2] = entry.c /\ x[3] = entry.h
            THEN ToUint8(entry.v)
            ELSE cb.data[x]]]

RECURSIVE FillCodeword(_, _, _)
FillCodeword(cb, gene, codeword) ==
    IF codeword = <<>> THEN cb
    ELSE FillCodeword(LocAssign(cb, gene, Head(codeword)), gene, Tail(codeword))

RECURSIVE FillCodebook(_, _)
FillCodebook(cb, code_array) ==
    IF code_array = <<>> THEN cb
    ELSE FillCodebook(
            FillCodeword(cb, Head(code_array).gene_name, Head(code_array).codeword),
            Tail(code_array))

from_code_array(ca, nh_arg, nc_arg) ==
    IF \E i \in 1..Len(ca) : ~HasField(ca[i], "codeword")
    THEN Raised(KeyError("codeword"))
    ELSE
      LET nh == IF nh_arg # None THEN nh_arg[1] ELSE max_hyb(ca) + 1
          nc == IF nc_arg # None THEN nc_arg[1] ELSE max_ch(ca) + 1
      IN  IF max_hyb(ca) + 1 > nh THEN Raised(HybRangeError)
          ELSE IF max_ch(ca) + 1 > nc THEN Raised(ChRangeError)
          ELSE IF \E i \in 1..Len(ca) : missing_fields(ca[i]) # {}
          THEN LET i == CHOOSE k \in 1..Len(ca) :
                          /\ missing_fields(ca[k]) # {}
                          /\ \A m \in 1..(k - 1) : missing_fields(ca[m]) = {}
               IN  Raised(MissingFieldsError(missing_fields(ca[i])))
          ELSE LET gene_names == [i \in 1..Len(ca) |-> ca[i].gene_name]
               IN  Returned(FillCodebook(_empty_codebook(gene_names, nc, nh), ca))


(***************************************************************************)
(* to_json and from_json                                                   *)
(***************************************************************************)
\* self.loc[gene, ch, hyb]: the values of the rows whose label equals gene,
\* in stored order.
RowsLabelled(cb, label) == {g \in 1..Len(cb.gene_name) : cb.gene_name[g] = label}

\* bool() of a selection of more than one element
AmbiguousTruthError == [type |-> "ValueError", message |-> "truth value is ambiguous"]

\* The codeword of row g: the cells from position k on, in the order of the
\* loops of lines 343-344 (channels outside, rounds inside), a cell being
\* appended when its value is truthy.
RECURSIVE codeword_from(_, _, _)
codeword_from(cb, g, k) ==
    IF k >= cb.n_ch * cb.n_hyb THEN <<>>
    ELSE LET ch == k \div cb.n_hyb
             hyb == k % cb.n_hyb
             rest == codeword_from(cb, g, k + 1)
         IN  IF cb.data[<<g, ch, hyb>>] # 0
             THEN <<[c |-> ch, h |-> hyb, v |-> Float(cb.data[<<g, ch, hyb>>])]>> \o rest
             ELSE rest

\* The document json.dump writes (lines 340-358): one record per gene.
json_document(cb) ==
    [g \in 1..Len(cb.gene_name) |->
        [codeword |-> codeword_from(cb, g, 0), gene_name |-> str(cb.gene_name[g])]]

\* to_json: the document, or the exception raised before the file is opened.
\* The test `if self.loc[gene, ch, hyb]` is evaluated for the first cell of
\* every gene of a codebook with at least one cell per gene.
to_json(cb) ==
    IF /\ cb.n_ch * cb.n_hyb > 0
       /\ \E g \in 1..Len(cb.gene_name) :
             Cardinality(RowsLabelled(cb, cb.gene_name[g])) > 1
    THEN [status |-> "raised", error |-> AmbiguousTruthError, document |-> <<>>]
    ELSE [status |-> "returned", error |-> NoError, document |-> json_document(cb)]

NoFile == None

\* from_json: json.load of the document, then from_code_array.  json.load
\* returns the floats, integers and strings that json.dump wrote.
from_json(document, nh_arg, nc_arg) == from_code_array(document, nh_arg, nc_arg)

(***************************************************************************)
(* Labeled arrays with dimensions (row, c, h): an IntensityTable (a row is *)
(* a feature) or the tensor of a Codebook (a row is a code).               *)
(***************************************************************************)
Table(rows, nc, nh, data) == [rows |-> rows, n_ch |-> nc, n_hyb |-> nh, data |-> data]

NoTable == Table(0, 0, 0, <<>>)

TableOfCodebook(cb) == Table(Len(cb.gene_name), cb.n_ch, cb.n_hyb, cb.data)

\* array.stack(traces=(c, h)).values[i]: row i as one vector, c-major.
Trace(t, i) ==
    [k \in 1..(t.n_ch * t.n_hyb) |->
        t.data[<<i, (k - 1) \div t.n_hyb, (k - 1) % t.n_hyb>>]]

(***************************************************************************)
(* _normalize_features                                                     *)
(***************************************************************************)
\* np.linalg.norm(v, ord): the orders with a rational value, 1 (the sum of
\* the absolute values) and inf (their maximum).
vector_norm(v, ord) ==
    LET a == [k \in DOMAIN v |-> RatAbs(v[k])]
    IN  IF ord = "1" THEN SumSeq(a) ELSE MaxSeq(a)

\* np.linalg.norm(np.full(n, fill_value=1 / n), ord=norm_order) / n
partitioned_intensity(n, ord) ==
    RatDiv(vector_norm([k \in 1..n |-> <<1, n>>], ord), Float(n))

\* A faulty fillna that leaves NaN in place.
KeepNaN(x, value) == x

\* array.fillna(value)
fillna(x, value) == IF IsNaN(x) THEN value ELSE x

\* Lines 385-394; the values of the argument are integers held as floats.
_normalize_features(t, ord) ==
    LET norm == [i \in 1..t.rows |->
                    vector_norm([k \in 1..(t.n_ch * t.n_hyb) |-> Float(Trace(t, i)[k])], ord)]
        n == t.n_ch * t.n_hyb
        divided == [x \in DOMAIN t.data |-> RatDiv(Float(t.data[x]), norm[x[1]])]
        fill == partitioned_intensity(n, ord)
    IN  [array |-> Table(t.rows, t.n_ch, t.n_hyb,
                         [x \in DOMAIN divided |-> fillna(divided[x], fill)]),
         norm |-> norm]

NotNormalized == [array |-> NoTable, norm |-> <<>>]

(***************************************************************************)
(* An IntensityTable: the spot attributes of its features, the (feature,   *)
(* c, h) array and the per-feature columns a decoder attaches (None while  *)
(* not attached).                                                          *)
(***************************************************************************)
IntensityTable(spot_attributes, t) ==
    [spot_attributes |-> spot_attributes, array |-> t, gene |-> None, distance |-> None]

NoIntensities == IntensityTable(<<>>, NoTable)

\* The attributes of n detected spots: positions and radius.
SpotAttributes(n) == [f \in 1..n |-> [x |-> f, y |-> 2 * f, z |-> 0, radius |-> 1]]

(***************************************************************************)
(* decode_per_hyb_max                                                      *)
(***************************************************************************)
\* A faulty argmax that returns the last index among the channels holding
\* the maximum.
argmax_last(t, i, h) ==
    CHOOSE ch \in 0..(t.n_ch - 1) :
        /\ \A c2 \in 0..(t.n_ch - 1) : t.data[<<i, c2, h>>] <= t.data[<<i, ch, h>>]
        /\ \A c2 \in (ch + 1)..(t.n_ch - 1) : t.data[<<i, c2, h>>] < t.data[<<i, ch, h>>]

\* x.argmax(c) at row i, round h: numpy returns the first index among the
\* channels that hold the maximum.
argmax(t, i, h) ==
    CHOOSE ch \in 0..(t.n_ch - 1) :
        /\ \A c2 \in 0..(t.n_ch - 1) : t.data[<<i, c2, h>>] <= t.data[<<i, ch, h>>]
        /\ \A c2 \in 0..(ch - 1) : t.data[<<i, c2, h>>] < t.data[<<i, ch, h>>]

\* _view_row_as_element(x.argmax(c).values.reshape(rows, -1)): every row as
\* one element, the per-round winning channels of the row.
_view_row_as_element(t) ==
    [i \in 1..t.rows |-> [h \in 0..(t.n_hyb - 1) |-> argmax(t, i, h)]]

\* A faulty loop in which a feature keeps the label of the first code whose
\* element equals its own.
RECURSIVE match_codes_first(_, _, _, _, _)
match_codes_first(a, b, code_names, genes, i) ==
    IF i > Len(a) THEN genes
    ELSE match_codes_first(a, b, code_names,
                           [f \in DOMAIN genes |->
                               IF a[i] = b[f] /\ genes[f] = NoneGene
                               THEN code_names[i] ELSE genes[f]],
                           i + 1)

\* The loop of lines 547-548 from code i on: every feature whose element
\* equals that of code i takes the label of code i.
RECURSIVE match_codes(_, _, _, _, _)
match_codes(a, b, code_names, genes, i) ==
    IF i > Len(a) THEN genes
    ELSE match_codes(a, b, code_names,
                     [f \in DOMAIN genes |-> IF a[i] = b[f] THEN code_names[i] ELSE genes[f]],
                     i + 1)

\* A faulty decoder that stores the winning channels in place of the
\* intensities.
decode_per_hyb_max_in_place(self, it) ==
    LET b == _view_row_as_element(it.array)
    IN  [it EXCEPT !.gene = Some([f \in 1..it.array.rows |-> NoneGene]),
                   !.array.data = [x \in DOMAIN it.array.data |-> b[x[1]][x[3]]]]

\* Lines 535-554.  genes.astype('U') turns every label into its string.
decode_per_hyb_max(self, it) ==
    LET a == _view_row_as_element(TableOfCodebook(self))
        b == _view_row_as_element(it.array)
        genes == match_codes(a, b, self.gene_name, [f \in 1..it.array.rows |-> NoneGene], 1)
    IN  [it EXCEPT !.gene = Some([f \in DOMAIN genes |-> str(genes[f])])]

(***************************************************************************)
(* _approximate_nearest_code and metric_decode                             *)
(***************************************************************************)
\* The sklearn metrics whose values are rational: manhattan (the sum of the
\* absolute differences) and chebyshev (their maximum).
distance(u, v, metric) ==
    LET d == [k \in DOMAIN u |-> RatAbs(RatSub(u[k], v[k]))]
    IN  IF metric = "manhattan" THEN SumSeq(d) ELSE MaxSeq(d)

\* The distances from vector x to every row of linear_codes.
distances(linear_codes, x, metric) ==
    {distance(linear_codes[i], x, metric) : i \in DOMAIN linear_codes}

\* A faulty query that reports the distance to the farthest row.
farthest_distance(linear_codes, x, metric) ==
    CHOOSE d \in distances(linear_codes, x, metric) :
        \A e \in distances(linear_codes, x, metric) : RatLeq(e, d)

\* kneighbors with n_neighbors=1: the distance to the closest row.
nearest_distance(linear_codes, x, metric) ==
    CHOOSE d \in distances(linear_codes, x, metric) :
        \A e \in distances(linear_codes, x, metric) : RatLeq(d, e)

\* The rows kneighbors may report for vector x: those at the nearest
\* distance; which one among equidistant rows depends on the tree.
nearest_rows(linear_codes, x, metric) ==
    {i \in DOMAIN linear_codes :
        distance(linear_codes[i], x, metric) = nearest_distance(linear_codes, x, metric)}

\* The index arrays kneighbors may return for the first f features.
RECURSIVE kneighbors(_, _, _, _)
kneighbors(linear_codes, linear_features, metric, f) ==
    IF f = 0 THEN {<<>>}
    ELSE {Append(indices, i) :
             indices \in kneighbors(linear_codes, linear_features, metric, f - 1),
             i \in nearest_rows(linear_codes, linear_features[f], metric)}

\* Lines 420-429, for the index array kneighbors returned.
_approximate_nearest_code(norm_codes, code_names, norm_intensities, metric, indices) ==
    LET linear_codes == [i \in 1..norm_codes.rows |-> Trace(norm_codes, i)]
        linear_features == [f \in 1..norm_intensities.rows |-> Trace(norm_intensities, f)]
    IN  [metric_output |->
             [f \in DOMAIN linear_features |->
                 distance(linear_codes[indices[f]], linear_features[f], metric)],
         gene_ids |-> [f \in DOMAIN linear_features |-> code_names[indices[f]]]]

\* The index arrays kneighbors may return inside metric_decode.
neighbor_indices(self, it, norm, metric) ==
    LET norm_codes == _normalize_features(TableOfCodebook(self), norm).array
        norm_intensities == _normalize_features(it.array, norm).array
    IN  kneighbors([i \in 1..norm_codes.rows |-> Trace(norm_codes, i)],
                   [f \in 1..norm_intensities.rows |-> Trace(norm_intensities, f)],
                   metric, norm_intensities.rows)

\* A faulty intensity mask that selects no feature.
no_intensity_mask(norms, min_intensity) == {}

\* np.where(norms < min_intensity)[0]
intensity_mask(norms, min_intensity) ==
    {f \in DOMAIN norms : RatLess(norms[f], min_intensity)}

\* np.where(metric_outputs > max_distance)[0]
exceeds_distance(metric_outputs, max_distance) ==
    {f \in DOMAIN metric_outputs : RatLess(max_distance, metric_outputs[f])}

\* Lines 466-489, for the index array kneighbors returned.
metric_decode(self, it, max_distance, min_intensity, norm, metric, indices) ==
    LET normalized_intensities == _normalize_features(it.array, norm)
        norm_codes == _normalize_features(TableOfCodebook(self), norm).array
        nearest == _approximate_nearest_code(norm_codes, self.gene_name,
                                             normalized_intensities.array, metric, indices)
        masked == exceeds_distance(nearest.metric_output, max_distance)
                      \cup intensity_mask(normalized_intensities.norm, min_intensity)
        gene_index == [f \in DOMAIN nearest.gene_ids |->
                          IF f \in masked THEN NoneGene ELSE nearest.gene_ids[f]]
    IN  [it EXCEPT !.gene = Some(gene_index), !.distance = Some(nearest.metric_output)]

(***************************************************************************)
(* synthetic_one_hot_codebook                                              *)
(***************************************************************************)
\* The tuples the rejection loop can draw: one channel per round, each from
\* np.random.randint(0, n_channel).
AllCodes(nh, nc) == [1..nh -> 0..(nc - 1)]

\* np.random.randint(0, n_channel) raises when the range is empty.
RandintError == [type |-> "ValueError", message |-> "low >= high"]

AssertionError == [type |-> "AssertionError"]

\* A faulty loop condition that stops one code short.
LoopContinuesOffByOne(cs, n) == Cardinality(cs) + 1 < n

\* while len(codes) < n_codes
LoopContinues(cs, n) == Cardinality(cs) < n

\* [{h: h, c: c, 'v': 1} for h, c in enumerate(code)]
one_hot_codeword(code) ==
    [i \in 1..Len(code) |-> [h |-> i - 1, c |-> code[i], v |-> Float(1)]]

\* The orders in which iterating the set may yield its codes.
IterationOrders(cs) ==
    {f \in [1..Cardinality(cs) -> cs] : \A i, j \in DOMAIN f : f[i] = f[j] => i = j}

\* The text of the i-th identifier uuid.uuid4() generates in a call.
UuidText == <<"u1", "u2", "u3", "u4", "u5", "u6", "u7", "u8">>

default_gene_names(n) == [i \in 1..n |-> Uuid(UuidText[i])]

\* Lines 604-622, for one iteration order of the set.
build_synthetic(order, names_arg, n, nh, nc) ==
    LET codewords == [i \in 1..Len(order) |-> one_hot_codeword(order[i])]
        names == IF names_arg = None THEN default_gene_names(n) ELSE names_arg[1]
    IN  IF n # Len(names) THEN Raised(AssertionError)
        ELSE from_code_array(
                [i \in 1..Len(codewords) |->
                    [codeword |-> codewords[i], gene_name |-> names[i]]],
                Some(nh), Some(nc))

(***************************************************************************)
(* build_spot_traces_exact_match (trace_builders.py).  spot_results maps   *)
(* each of its keys <<r, c>> to the spots detected in that round and       *)
(* channel, in detection order; a spot has a position, a radius and an     *)
(* intensity.                                                              *)
(***************************************************************************)
\* spot_results[{Axes.ROUND: r, Axes.CH: c}].data[Features.INTENSITY]
intensity_column(spots) == [i \in 1..Len(spots) |-> spots[i].intensity]

\* The attributes a feature inherits from a spot.
spot_attributes_of(spots) ==
    [i \in 1..Len(spots) |->
        [x |-> spots[i].x, y |-> spots[i].y, z |-> spots[i].z, radius |-> spots[i].radius]]

\* IntensityTable.zeros(spot_attributes, ch_labels, round_labels); the labels
\* are 0..n-1 in order.
zeros(spot_attributes, ch_labels, round_labels) ==
    IntensityTable(spot_attributes,
                   Table(Len(spot_attributes), Len(ch_labels), Len(round_labels),
                         [x \in Cells(Len(spot_attributes), Len(ch_labels), Len(round_labels))
                             |-> 0]))

BroadcastError == [type |-> "ValueError", reason |-> "could not broadcast"]

\* Whether an array of the given length can be assigned to a slice of n
\* features: numpy takes an array of the same length and repeats an array
\* of length 1.
assignable(values, n) == Len(values) = n \/ Len(values) = 1

\* intensity_table.loc[dict(c=c, r=r)] = values, for assignable values.
loc_assign(it, c, r, values) ==
    [it EXCEPT !.array.data =
        [x \in DOMAIN it.array.data |->
            IF x[2] = c /\ x[3] = r
            THEN IF Len(values) = 1 THEN values[1] ELSE values[x[1]]
            ELSE it.array.data[x]]]

\* The loop of lines 27-29 over the keys not yet visited.  The keys write
\* disjoint slices, so the order of spot_results.keys() does not change the
\* table.
RECURSIVE fill_traces(_, _, _)
fill_traces(it, spot_results, todo) ==
    IF todo = {} THEN it
    ELSE LET k == CHOOSE key \in todo : TRUE
         IN  fill_traces(loc_assign(it, k[2], k[1], intensity_column(spot_results[k])),
                         spot_results, todo \ {k})

NotBuilt == [status |-> "pending", error |-> NoError, value |-> NoIntensities]

\* Lines 19-30: KeyError when no spots are stored for round 0, channel 0;
\* ValueError from the first assignment whose values do not fit; the table
\* otherwise.
build_spot_traces_exact_match(spot_results, ch_labels, round_labels) ==
    IF <<0, 0>> \notin DOMAIN spot_results
    THEN [status |-> "raised", error |-> KeyError(<<0, 0>>), value |-> NoIntensities]
    ELSE LET intensity_table ==
                 zeros(spot_attributes_of(spot_results[<<0, 0>>]), ch_labels, round_labels)
         IN  IF \E k \in DOMAIN spot_results :
                    ~assignable(intensity_column(spot_results[k]),
                                Len(spot_results[<<0, 0>>]))
             THEN [status |-> "raised", error |-> BroadcastError, value |-> NoIntensities]
             ELSE [status |-> "returned", error |-> NoError,
                   value |-> fill_traces(intensity_table, spot_results, DOMAIN spot_results)]

(***************************************************************************)
(* State.  One group of variables per call of the library.                 *)
(***************************************************************************)
VARIABLES
    code_array, n_hyb, n_ch,   \* arguments of from_code_array
    ctor,                      \* outcome of from_code_array
    syn_n_hyb, n_channel, n_codes, gene_names,   \* arguments of synthetic_one_hot_codebook
    codes,                     \* its set of accepted codes
    synth,                     \* its outcome
    file,                      \* the JSON document to_json wrote, if any
    json,                      \* outcome of to_json
    loaded,                    \* outcome of from_json
    array, norm_order,         \* arguments of _normalize_features
    normalized,                \* its result: the normalized array and the norms
    codebook,                  \* self of the decoders
    intensities,               \* the IntensityTable a decoder is given
    max_distance, min_intensity, norm, metric,   \* arguments of metric_decode
    decoded,                   \* TRUE once the decoder has returned intensities
    spot_results,              \* argument of build_spot_traces_exact_match
    traces                     \* its outcome

ctorVars == <<code_array, n_hyb, n_ch, ctor>>

synthVars == <<syn_n_hyb, n_channel, n_codes, gene_names, codes, synth>>

jsonVars == <<file, json, loaded>>

normVars == <<array, norm_order, normalized>>

decodeVars == <<codebook, intensities, max_distance, min_intensity, norm, metric, decoded>>

traceVars == <<spot_results, traces>>

vars == <<ctorVars, synthVars, jsonVars, normVars, decodeVars, traceVars>>

\* The variables of a call that a specification does not make.
CtorIdle == code_array = <<>> /\ n_hyb = None /\ n_ch = None /\ ctor = Pending

SynthIdle ==
    /\ syn_n_hyb = 0 /\ n_channel = 0 /\ n_codes = 0 /\ gene_names = None
    /\ codes = {} /\ synth = Pending

JsonIdle == file = NoFile /\ json = Pending /\ loaded = Pending

NormIdle == array = NoTable /\ norm_order = "1" /\ normalized = NotNormalized

TraceIdle == spot_results = <<>> /\ traces = NotBuilt

DecodeIdle ==
    /\ codebook = NoCodebook /\ intensities = NoIntensities
    /\ max_distance = Float(0) /\ min_intensity = Float(0)
    /\ norm = "1" /\ metric = "manhattan"
    /\ decoded = FALSE

(***************************************************************************)
(* Inputs of from_code_array.                                              *)
(***************************************************************************)
MaxRecords == 2

MaxEntries == 2

RoundIdx == 0..1

ChannelIdx == 0..1

\* JSON numbers a codeword may carry: the typical 1, a fraction and a number
\* beyond the range of the tensor's dtype.
JsonValues == {Float(1), <<1, 2>>, Float(257)}

GeneLabels == {Str("A"), Str("B")}

OptionalDims == {None, Some(1), Some(2)}

\* Records that may lack a field, for the validation paths.
LooseCodewords == SeqUpTo([h : RoundIdx, c : ChannelIdx, v : {Float(1)}], 1)

LooseRecords ==
    [gene_name : GeneLabels, codeword : LooseCodewords]
        \cup [gene_name : GeneLabels] \cup [codeword : LooseCodewords]

\* Well-formed records with any codeword, for the fill.
FullCodewords == SeqUpTo([h : RoundIdx, c : ChannelIdx, v : JsonValues], MaxEntries)

FullRecords == [gene_name : GeneLabels, codeword : FullCodewords]

\* The code array of the docstring of from_code_array (lines 164-179).
ACTBExample ==
    << [codeword |-> << [h |-> 0, c |-> 3, v |-> Float(1)],
                        [h |-> 1, c |-> 3, v |-> Float(1)] >>,
        gene_name |-> Str("ACTB_human")],
       [codeword |-> << [h |-> 0, c |-> 3, v |-> Float(1)],
                        [h |-> 1, c |-> 1, v |-> Float(1)] >>,
        gene_name |-> Str("ACTB_mouse")] >>

CtorInit ==
    /\ \/ /\ code_array \in SeqUpTo(LooseRecords, MaxRecords)
          /\ n_hyb \in OptionalDims
          /\ n_ch \in OptionalDims
       \/ /\ code_array \in SeqUpTo(FullRecords, MaxRecords)
          /\ \E dims \in {None, Some(2)} : n_hyb = dims /\ n_ch = dims
       \/ /\ code_array = ACTBExample
          /\ n_hyb = None
          /\ n_ch = None
    /\ ctor = Pending
    /\ SynthIdle
    /\ JsonIdle
    /\ NormIdle
    /\ DecodeIdle
    /\ TraceIdle

\* One call of Codebook.from_code_array(code_array, n_hyb, n_ch).
FromCodeArray ==
    /\ ctor.status = "pending"
    /\ ctor' = from_code_array(code_array, n_hyb, n_ch)
    /\ UNCHANGED <<code_array, n_hyb, n_ch, synthVars, jsonVars, normVars, decodeVars, traceVars>>

CtorNext == FromCodeArray

SpecCtor == CtorInit /\ [][CtorNext]_vars


(***************************************************************************)
(* Claims about from_code_array.                                           *)
(***************************************************************************)
WellFormed(ca) == \A i \in 1..Len(ca) : missing_fields(ca[i]) = {}

\* The (h, c) indices of the entries of record i, when it has a codeword.
EntriesOf(ca, i) ==
    IF HasField(ca[i], "codeword")
    THEN {ca[i].codeword[j] : j \in 1..Len(ca[i].codeword)}
    ELSE {}

RoundTooLarge == n_hyb # None /\ \E i \in 1..Len(code_array) :
                    \E e \in EntriesOf(code_array, i) : e.h >= n_hyb[1]

ChannelTooLarge == n_ch # None /\ \E i \in 1..Len(code_array) :
                    \E e \in EntriesOf(code_array, i) : e.c >= n_ch[1]

\* C2: a code array with a record that lacks the gene field or the codeword
\* field, whichever field and wherever the record sits, makes from_code_array
\* fail with a ValueError.
C2_MissingFieldRaisesValueError ==
    (ctor.status # "pending" /\ ~WellFormed(code_array))
        => (ctor.status = "raised" /\ ctor.error.type = "ValueError")

\* C3: an entry with round index >= the supplied n_hyb, or channel index >=
\* the supplied n_ch, makes from_code_array fail with a ValueError that names
\* the offending dimension (the rounds argument when a round index is too
\* large, else the channels argument); with neither argument supplied no
\* such error occurs.  Stated for arrays whose records have both fields.
C3_RangeErrorNamesDimension ==
    (ctor.status # "pending" /\ WellFormed(code_array)) =>
        /\ RoundTooLarge =>
              /\ ctor.status = "raised"
              /\ ctor.error = [type |-> "ValueError", requires |-> "hybridization",
                               provided |-> "n_hyb"]
        /\ (ChannelTooLarge /\ ~RoundTooLarge) =>
              /\ ctor.status = "raised"
              /\ ctor.error = [type |-> "ValueError", requires |-> "channel",
                               provided |-> "n_ch"]
        /\ (n_hyb = None /\ n_ch = None) => ctor.status = "returned"

\* A code array that passes every check of the constructor, whose values fit
\* the tensor's dtype and whose codewords list no cell twice.
Uint8Valued(ca) ==
    \A i \in 1..Len(ca) : \A e \in EntriesOf(ca, i) :
        e.v[2] = 1 /\ e.v[1] \in 0..255

NoCellTwice(ca) ==
    \A i \in 1..Len(ca) : \A j, k \in 1..Len(ca[i].codeword) :
        (ca[i].codeword[j].h = ca[i].codeword[k].h
            /\ ca[i].codeword[j].c = ca[i].codeword[k].c) => j = k

Listed(ca, i, c, h) == \E e \in EntriesOf(ca, i) : e.c = c /\ e.h = h

TensorOf(ca, cb, nh, nc) ==
    /\ Len(cb.gene_name) = Len(ca)
    /\ cb.n_hyb = nh
    /\ cb.n_ch = nc
    /\ DOMAIN cb.data = Cells(Len(ca), nc, nh)
    /\ \A i \in 1..Len(ca) :
          /\ cb.gene_name[i] = ca[i].gene_name
          /\ \A e \in EntriesOf(ca, i) : Float(cb.data[<<i, e.c, e.h>>]) = e.v
          /\ \A c \in 0..(nc - 1), h \in 0..(nh - 1) :
                ~Listed(ca, i, c, h) => cb.data[<<i, c, h>>] = 0

\* C10: for a valid code array the returned tensor has shape (genes, channels,
\* rounds), holds v at (gene, c, r) for every listed triple and 0 in every
\* unlisted cell, the dimensions being max index + 1 when not supplied.
C10_TensorHoldsCodewords ==
    (ctor.status = "returned" /\ Uint8Valued(code_array) /\ NoCellTwice(code_array))
        => TensorOf(code_array, ctor.value,
                    IF n_hyb = None THEN max_hyb(code_array) + 1 ELSE n_hyb[1],
                    IF n_ch = None THEN max_ch(code_array) + 1 ELSE n_ch[1])

\* The gene labels of codebook cb are pairwise distinct.
DistinctLabels(cb) ==
    \A i, j \in 1..Len(cb.gene_name) : cb.gene_name[i] = cb.gene_name[j] => i = j

\* C11: every codebook from_code_array returns has pairwise-distinct gene
\* labels, and the code of each gene holds the values of its own record
\* only: a cell its record does not list is 0.
C11_GeneLabelsUnique ==
    ctor.status = "returned" =>
        /\ DistinctLabels(ctor.value)
        /\ \A i \in 1..Len(code_array) :
              \A c \in 0..(ctor.value.n_ch - 1), h \in 0..(ctor.value.n_hyb - 1) :
                  ~Listed(code_array, i, c, h) => ctor.value.data[<<i, c, h>>] = 0


(***************************************************************************)
(* synthetic_one_hot_codebook as a state machine: one draw of the          *)
(* rejection loop per step, then the construction of the codebook.         *)
(***************************************************************************)
MaxHyb == 2

MaxChannel == 2

MaxCodes == 2

SuppliedNames == {None, Some(<<Str("A"), Str("B")>>), Some(<<Str("A"), Str("A")>>)}

SynthInit ==
    /\ syn_n_hyb \in 0..MaxHyb
    /\ n_channel \in 0..MaxChannel
    /\ n_codes \in 0..MaxCodes
    /\ gene_names \in SuppliedNames
    /\ codes = {}
    /\ synth = Pending
    /\ CtorIdle
    /\ JsonIdle
    /\ NormIdle
    /\ DecodeIdle
    /\ TraceIdle

\* One iteration of the while loop of lines 601-602 that draws a tuple.
Draw ==
    /\ synth.status = "pending"
    /\ LoopContinues(codes, n_codes)
    /\ syn_n_hyb = 0 \/ n_channel > 0
    /\ \E code \in AllCodes(syn_n_hyb, n_channel) : codes' = codes \cup {code}
    /\ UNCHANGED <<syn_n_hyb, n_channel, n_codes, gene_names, synth, ctorVars, jsonVars, normVars, decodeVars, traceVars>>

\* The iteration in which np.random.randint(0, n_channel) raises.
DrawRaises ==
    /\ synth.status = "pending"
    /\ LoopContinues(codes, n_codes)
    /\ syn_n_hyb > 0 /\ n_channel <= 0
    /\ synth' = Raised(RandintError)
    /\ UNCHANGED <<syn_n_hyb, n_channel, n_codes, gene_names, codes, ctorVars, jsonVars, normVars, decodeVars, traceVars>>

\* The loop has ended: lines 604-622.
BuildSynthetic ==
    /\ synth.status = "pending"
    /\ ~LoopContinues(codes, n_codes)
    /\ \E order \in IterationOrders(codes) :
          synth' = build_synthetic(order, gene_names, n_codes, syn_n_hyb, n_channel)
    /\ UNCHANGED <<syn_n_hyb, n_channel, n_codes, gene_names, codes, ctorVars, jsonVars, normVars, decodeVars, traceVars>>

SynthNext == Draw \/ DrawRaises \/ BuildSynthetic

SpecSynth == SynthInit /\ [][SynthNext]_vars

RECURSIVE Pow(_, _)
Pow(b, e) == IF e = 0 THEN 1 ELSE b * Pow(b, e - 1)

\* C1: a call with n_codes greater than n_channel^n_hyb does not stay in the
\* rejection loop once every one-hot code is collected (no draw can then add
\* a code, so the loop cannot end): it has failed with a capacity error.
C1_NoEndlessRejectionLoop ==
    ~ /\ synth.status = "pending"
      /\ n_codes > Pow(n_channel, syn_n_hyb)
      /\ codes = AllCodes(syn_n_hyb, n_channel)
      /\ LoopContinues(codes, n_codes)
      /\ syn_n_hyb > 0 /\ n_channel > 0

OneHot(cb, g) ==
    \A h \in 0..(cb.n_hyb - 1) :
        /\ \A c \in 0..(cb.n_ch - 1) : cb.data[<<g, c, h>>] \in {0, 1}
        /\ Cardinality({c \in 0..(cb.n_ch - 1) : cb.data[<<g, c, h>>] = 1}) = 1

Row(cb, g) == [x \in (0..(cb.n_ch - 1)) \X (0..(cb.n_hyb - 1)) |-> cb.data[<<g, x[1], x[2]>>]]

\* C8: with n_codes <= n_channel^n_hyb and whatever the draws, the codebook
\* that synthetic_one_hot_codebook(n_hyb, n_channel, n_codes) returns has
\* exactly n_codes genes, pairwise distinct codes, and in every code exactly
\* one channel at 1 per round and 0 elsewhere.
C8_SyntheticOneHotDistinct ==
    (synth.status = "returned" /\ gene_names = None
            /\ n_codes <= Pow(n_channel, syn_n_hyb)) =>
        LET cb == synth.value
        IN  /\ Len(cb.gene_name) = n_codes
            /\ cb.n_hyb = syn_n_hyb /\ cb.n_ch = n_channel
            /\ DOMAIN cb.data = Cells(n_codes, n_channel, syn_n_hyb)
            /\ \A g \in 1..n_codes : OneHot(cb, g)
            /\ \A g1, g2 \in 1..n_codes :
                  g1 # g2 => /\ Row(cb, g1) # Row(cb, g2)
                             /\ cb.gene_name[g1] # cb.gene_name[g2]

C8_Witness ==
    /\ synth.status = "returned" /\ gene_names = None
    /\ n_codes = 2 /\ syn_n_hyb = 2 /\ n_channel = 2


(***************************************************************************)
(* Serialization: a codebook is constructed, written with to_json and read *)
(* back with from_json.                                                    *)
(***************************************************************************)
JsonLabels == {Str("A"), Str("B"), Uuid("A")}

JsonInit ==
    /\ code_array \in SeqUpTo([gene_name : JsonLabels, codeword : FullCodewords], MaxRecords)
    /\ n_hyb = None
    /\ n_ch = None
    /\ ctor = Pending
    /\ SynthIdle
    /\ JsonIdle
    /\ NormIdle
    /\ DecodeIdle
    /\ TraceIdle

\* codebook.to_json(filename) on the constructed codebook
ToJson ==
    /\ ctor.status = "returned"
    /\ json.status = "pending"
    /\ LET out == to_json(ctor.value)
       IN  /\ json' = [status |-> out.status, error |-> out.error, value |-> NoCodebook]
           /\ file' = IF out.status = "returned" THEN Some(out.document) ELSE file
    /\ UNCHANGED <<ctorVars, synthVars, loaded, normVars, decodeVars, traceVars>>

\* Codebook.from_json(filename) on the file written
FromJson ==
    /\ file # NoFile
    /\ loaded.status = "pending"
    /\ loaded' = from_json(file[1], None, None)
    /\ UNCHANGED <<ctorVars, synthVars, file, json, normVars, decodeVars, traceVars>>

JsonNext == FromCodeArray \/ ToJson \/ FromJson

SpecJson == JsonInit /\ [][JsonNext]_vars

\* The (gene, round, channel, value) tuples of the non-zero cells.
NonZeroTuples(cb) ==
    {<<cb.gene_name[x[1]], x[3], x[2], cb.data[x]>> :
        x \in {y \in DOMAIN cb.data : cb.data[y] # 0}}

EmittedTuples(document, g) ==
    {<<document[g].codeword[j].h, document[g].codeword[j].c, document[g].codeword[j].v>> :
        j \in 1..Len(document[g].codeword)}

\* C4: for every codebook, to_json writes exactly the non-zero cells of each
\* gene, and from_json of what it wrote yields a codebook with the same set
\* of (gene, round, channel, value) tuples over the non-zero cells.
C4_JsonRoundTrip ==
    /\ json.status # "raised"
    /\ file # NoFile =>
          /\ Len(file[1]) = Len(ctor.value.gene_name)
          /\ \A g \in 1..Len(file[1]) :
                EmittedTuples(file[1], g) =
                    {<<x[3], x[2], Float(ctor.value.data[x])>> :
                        x \in {y \in DOMAIN ctor.value.data :
                                  y[1] = g /\ ctor.value.data[y] # 0}}
    /\ loaded.status # "pending" =>
          /\ loaded.status = "returned"
          /\ NonZeroTuples(loaded.value) = NonZeroTuples(ctor.value)


(***************************************************************************)
(* Normalization of the features of a table.                               *)
(***************************************************************************)
MaxFeatures == 2

\* Shapes <<n_ch, n_hyb>> and intensity values of the tables normalized: every
\* value on the short shapes, the values 0 and 1 on the 2 x 2 shape.
ShortShapes == {<<1, 1>>, <<2, 1>>, <<1, 2>>, <<3, 1>>}

Intensities == 0..2

NormOrders == {"1", "inf"}

\* The tables with the given number of rows, shape <<n_ch, n_hyb>> and values.
Tables(rows, shape, values) ==
    {Table(rows, shape[1], shape[2], d) : d \in [Cells(rows, shape[1], shape[2]) -> values]}

NormInit ==
    /\ \E rows \in 1..MaxFeatures :
          \/ \E shape \in ShortShapes : array \in Tables(rows, shape, Intensities)
          \/ array \in Tables(rows, <<2, 2>>, {0, 1})
    /\ norm_order \in NormOrders
    /\ normalized = NotNormalized
    /\ CtorIdle
    /\ SynthIdle
    /\ JsonIdle
    /\ DecodeIdle
    /\ TraceIdle

\* Codebook._normalize_features(array, norm_order)
Normalize ==
    /\ normalized = NotNormalized
    /\ normalized' = _normalize_features(array, norm_order)
    /\ UNCHANGED <<array, norm_order, ctorVars, synthVars, jsonVars, decodeVars, traceVars>>

NormNext == Normalize

SpecNorm == NormInit /\ [][NormNext]_vars

AllZero(t, i) == \A c \in 0..(t.n_ch - 1), h \in 0..(t.n_hyb - 1) : t.data[<<i, c, h>>] = 0

\* The value of (L-p norm of the length-n vector filled with 1/n) / n.
UniformCell(n, ord) == IF ord = "1" THEN <<1, n>> ELSE <<1, n * n>>

\* C9: _normalize_features returns no NaN cell; an all-zero feature of length
\* n becomes the uniform vector of (L-p norm of n cells 1/n) / n and has 0
\* as its reported norm; a feature with a non-zero norm is returned divided
\* by its norm.
C9_NormalizeZeroFeature ==
    normalized # NotNormalized =>
        LET out == normalized.array
            n == array.n_ch * array.n_hyb
        IN  /\ DOMAIN out.data = DOMAIN array.data
            /\ Len(normalized.norm) = array.rows
            /\ \A x \in DOMAIN out.data : ~IsNaN(out.data[x])
            /\ \A i \in 1..array.rows :
                  IF AllZero(array, i)
                  THEN /\ normalized.norm[i] = Float(0)
                       /\ \A x \in DOMAIN out.data :
                             x[1] = i => out.data[x] = UniformCell(n, norm_order)
                  ELSE /\ normalized.norm[i] # Float(0)
                       /\ \A x \in DOMAIN out.data :
                             x[1] = i =>
                                RatMul(out.data[x], normalized.norm[i]) = Float(array.data[x])

C9_Witness ==
    /\ normalized # NotNormalized
    /\ array.rows = 2 /\ array.n_ch = 2 /\ array.n_hyb = 2
    /\ AllZero(array, 1) /\ ~AllZero(array, 2)
    /\ norm_order = "inf"

(***************************************************************************)
(* The decoders.  Both are given a codebook and an intensity table of the  *)
(* codebook's shape (n_ch, n_hyb); the gene labels differ from the string  *)
(* "None" the decoders write for an unassigned feature.                    *)
(***************************************************************************)
MaxGenes == 2

\* The labels of the codes by position: strings and a generated identifier.
GeneNamesInOrder == <<Str("A"), Uuid("B"), Str("C"), Str("D")>>

\* Label sequences of n codes: pairwise distinct, or one label repeated
\* (from_code_array accepts a repeated label).
LabelSeqs(n) == {[i \in 1..n |-> GeneNamesInOrder[i]], [i \in 1..n |-> Str("A")]}

\* The values of one row (one code, one feature): a function of <<c, h>>.
RowValues(nc, nh, values) == [(0..(nc - 1)) \X (0..(nh - 1)) -> values]

TableOfRows(rows, nc, nh) ==
    Table(Len(rows), nc, nh, [x \in Cells(Len(rows), nc, nh) |-> rows[x[1]][<<x[2], x[3]>>]])

CodebookOfRows(code_names, rows, nc, nh) ==
    [gene_name |-> code_names, n_ch |-> nc, n_hyb |-> nh,
     data |-> TableOfRows(rows, nc, nh).data]

\* decode_per_hyb_max on 2 channels and 2 rounds.  The codes are the
\* one-hot codes and the all-zero code; every round of a feature is one of
\* (2, 1), (0, 0), (1, 2) over the channels (0, 1).
MaxDecodeCodes ==
    {r \in RowValues(2, 2, {0, 1}) :
        \/ \A x \in DOMAIN r : r[x] = 0
        \/ \A h \in 0..1 : r[<<0, h>>] + r[<<1, h>>] = 1}

MaxDecodeFeatures ==
    {r \in RowValues(2, 2, 0..2) :
        \A h \in 0..1 : <<r[<<0, h>>], r[<<1, h>>]>> \in {<<2, 1>>, <<0, 0>>, <<1, 2>>}}

MaxDecodeInit ==
    /\ \E g \in 0..MaxGenes :
          \E code_names \in LabelSeqs(g), rows \in [1..g -> MaxDecodeCodes] :
              codebook = CodebookOfRows(code_names, rows, 2, 2)
    /\ \E f \in 1..MaxFeatures :
          \E rows \in [1..f -> MaxDecodeFeatures] :
              intensities = IntensityTable(SpotAttributes(f), TableOfRows(rows, 2, 2))
    /\ max_distance = Float(0) /\ min_intensity = Float(0)
    /\ norm = "1" /\ metric = "manhattan"
    /\ decoded = FALSE
    /\ CtorIdle
    /\ SynthIdle
    /\ JsonIdle
    /\ NormIdle
    /\ TraceIdle

\* Codebook.decode_per_hyb_max(intensities): intensities is changed in place
\* and returned.
DecodePerHybMax ==
    /\ ~decoded
    /\ intensities' = decode_per_hyb_max(codebook, intensities)
    /\ decoded' = TRUE
    /\ UNCHANGED <<codebook, max_distance, min_intensity, norm, metric>>
    /\ UNCHANGED <<ctorVars, synthVars, jsonVars, normVars, traceVars>>

MaxDecodeNext == DecodePerHybMax

SpecMaxDecode == MaxDecodeInit /\ [][MaxDecodeNext]_vars

\* Channel ch is the maximum-valued channel of round h of row i: it holds
\* the maximum of the round and no channel of lower index does.
Wins(t, i, h, ch) ==
    /\ \A c2 \in 0..(t.n_ch - 1) : t.data[<<i, c2, h>>] <= t.data[<<i, ch, h>>]
    /\ \A c2 \in 0..(t.n_ch - 1) : c2 < ch => t.data[<<i, c2, h>>] # t.data[<<i, ch, h>>]

\* Code i and feature f have the same maximum-valued channel in every round.
MatchesInAllRounds(i, f) ==
    \A h \in 0..(codebook.n_hyb - 1), ch \in 0..(codebook.n_ch - 1) :
        Wins(TableOfCodebook(codebook), i, h, ch) <=> Wins(intensities.array, f, h, ch)

\* C5: decode_per_hyb_max labels a feature with a gene other than "None" if
\* and only if some code has, in every round, the same maximum-valued
\* channel (the lowest-index channel holding the round's maximum) as the
\* feature; a feature with no such code is labelled "None"; the gene
\* assigned is the label of a code matching in all rounds.
C5_PerHybMaxLabelsExactMatches ==
    decoded =>
        /\ intensities.gene # None
        /\ Len(intensities.gene[1]) = intensities.array.rows
        /\ \A f \in 1..intensities.array.rows :
              LET gene == intensities.gene[1][f]
                  matching == {i \in 1..Len(codebook.gene_name) : MatchesInAllRounds(i, f)}
              IN  /\ (gene # NoneGene) <=> (matching # {})
                  /\ gene # NoneGene =>
                        \E i \in matching : gene = str(codebook.gene_name[i])

\* A feature with an all-zero round is given a gene, another feature of the
\* same table is left unassigned although the codebook has two codes.
C5_Witness ==
    /\ decoded
    /\ Len(codebook.gene_name) = 2
    /\ intensities.array.rows = 2
    /\ \A c \in 0..1 : intensities.array.data[<<1, c, 0>>] = 0
    /\ intensities.gene[1][1] = Str("B")
    /\ intensities.gene[1][2] = NoneGene

\* C12: when several codes match a feature in every round, decode_per_hyb_max
\* labels the feature with the gene of the matching code that comes last in
\* the stored order of the codebook.
C12_LastMatchingCodeWins ==
    decoded =>
        \A f \in 1..intensities.array.rows :
            LET matching == {i \in 1..Len(codebook.gene_name) : MatchesInAllRounds(i, f)}
            IN  matching # {} =>
                    intensities.gene[1][f] = str(codebook.gene_name[Max(matching)])

\* Two codes with different labels match feature 1 in every round, and the
\* feature carries the label of the second.
C12_Witness ==
    /\ decoded
    /\ codebook.gene_name = <<Str("A"), Uuid("B")>>
    /\ MatchesInAllRounds(1, 1) /\ MatchesInAllRounds(2, 1)
    /\ intensities.gene[1][1] = Str("B")

(***************************************************************************)
(* metric_decode on 2 channels and 1 round: the codes (0, 0), (1, 0) and   *)
(* (0, 1), the features (0, 0), (0, 2) and (2, 2) over the channels        *)
(* (0, 1).  The codebook has at least one code: NearestNeighbors.fit       *)
(* raises on an empty array, before any label is written.                  *)
(***************************************************************************)
MetricCodes == {r \in RowValues(2, 1, {0, 1}) : r[<<0, 0>>] + r[<<1, 0>>] <= 1}

MetricFeatures == {r \in RowValues(2, 1, {0, 2}) : r[<<0, 0>>] <= r[<<1, 0>>]}

\* The pairs <<max_distance, min_intensity>> decoded with.
Thresholds == {<<Float(0), Float(1)>>, <<<<1, 2>>, Float(3)>>}

Metrics == {"manhattan", "chebyshev"}

MetricInit ==
    /\ \E g \in 1..MaxGenes :
          \E rows \in [1..g -> MetricCodes] :
              codebook = CodebookOfRows([i \in 1..g |-> GeneNamesInOrder[i]], rows, 2, 1)
    /\ \E f \in 1..MaxFeatures :
          \E rows \in [1..f -> MetricFeatures] :
              intensities = IntensityTable(SpotAttributes(f), TableOfRows(rows, 2, 1))
    /\ \E t \in Thresholds : max_distance = t[1] /\ min_intensity = t[2]
    /\ norm \in NormOrders
    /\ metric \in Metrics
    /\ decoded = FALSE
    /\ CtorIdle
    /\ SynthIdle
    /\ JsonIdle
    /\ NormIdle
    /\ TraceIdle

\* Codebook.metric_decode(intensities, max_distance, min_intensity, norm,
\* metric): intensities is changed in place and returned.
MetricDecode ==
    /\ ~decoded
    /\ \E indices \in neighbor_indices(codebook, intensities, norm, metric) :
          intensities' = metric_decode(codebook, intensities, max_distance,
                                       min_intensity, norm, metric, indices)
    /\ decoded' = TRUE
    /\ UNCHANGED <<codebook, max_distance, min_intensity, norm, metric>>
    /\ UNCHANGED <<ctorVars, synthVars, jsonVars, normVars, traceVars>>

MetricNext == MetricDecode

SpecMetric == MetricInit /\ [][MetricNext]_vars

\* The norm of feature f before normalization.
FeatureNorm(f) ==
    vector_norm([k \in 1..(intensities.array.n_ch * intensities.array.n_hyb) |->
                    Float(Trace(intensities.array, f)[k])], norm)

\* The distance from normalized feature f to normalized code i.
CodeDistance(i, f) ==
    distance(Trace(_normalize_features(TableOfCodebook(codebook), norm).array, i),
             Trace(_normalize_features(intensities.array, norm).array, f),
             metric)

CodeIndices == 1..Len(codebook.gene_name)

\* C6: metric_decode labels "None" every feature whose norm before
\* normalization is below min_intensity, whatever its distance, and every
\* feature all of whose codes are farther than max_distance, whatever its
\* norm: each mask alone is sufficient.
C6_EitherMaskGivesNone ==
    decoded =>
        \A f \in 1..intensities.array.rows :
            /\ RatLess(FeatureNorm(f), min_intensity) => intensities.gene[1][f] = NoneGene
            /\ (\A i \in CodeIndices : RatLess(max_distance, CodeDistance(i, f)))
                   => intensities.gene[1][f] = NoneGene

\* One feature is masked by its norm alone (a code lies within
\* max_distance), another by its distance alone (its norm is large enough).
C6_Witness ==
    /\ decoded
    /\ intensities.array.rows = 2
    /\ RatLess(FeatureNorm(1), min_intensity)
    /\ \E i \in CodeIndices : RatLeq(CodeDistance(i, 1), max_distance)
    /\ intensities.gene[1][1] = NoneGene
    /\ RatLeq(min_intensity, FeatureNorm(2))
    /\ \A i \in CodeIndices : RatLess(max_distance, CodeDistance(i, 2))
    /\ intensities.gene[1][2] = NoneGene

\* C7: metric_decode gives every feature one gene label and one distance;
\* the distance recorded for a feature, masked or not, is the minimum
\* distance from its normalized vector to a normalized code; a feature with
\* norm >= min_intensity and that distance <= max_distance carries the
\* label of a code at that minimum distance, not "None".
C7_NearestCodeAndDistanceRecorded ==
    decoded =>
        /\ intensities.gene # None /\ intensities.distance # None
        /\ DOMAIN intensities.gene[1] = 1..intensities.array.rows
        /\ DOMAIN intensities.distance[1] = 1..intensities.array.rows
        /\ \A f \in 1..intensities.array.rows :
              LET d == intensities.distance[1][f]
                  gene == intensities.gene[1][f]
              IN  /\ \A i \in CodeIndices : RatLeq(d, CodeDistance(i, f))
                  /\ \E i \in CodeIndices : d = CodeDistance(i, f)
                  /\ (RatLeq(min_intensity, FeatureNorm(f)) /\ RatLeq(d, max_distance)) =>
                        /\ gene # NoneGene
                        /\ \E i \in CodeIndices :
                              d = CodeDistance(i, f) /\ gene = codebook.gene_name[i]

\* Two codes at different distances from an unmasked feature, which takes
\* the label of the second, nearer code; a masked feature in the same table
\* has its distance recorded as well.
C7_Witness ==
    /\ decoded
    /\ Len(codebook.gene_name) = 2
    /\ intensities.array.rows = 2
    /\ RatLess(CodeDistance(2, 1), CodeDistance(1, 1))
    /\ intensities.gene[1][1] = Uuid("B")
    /\ intensities.gene[1][2] = NoneGene
    /\ intensities.distance[1][2] = CodeDistance(1, 2)

(***************************************************************************)
(* A decode call of either decoder, on the codebooks, tables and arguments *)
(* of MetricInit.                                                          *)
(***************************************************************************)
DecodeNext == DecodePerHybMax \/ MetricDecode

SpecDecode == MetricInit /\ [][DecodeNext]_vars

\* C13: a decode call (metric_decode or decode_per_hyb_max) leaves the
\* codebook unchanged and leaves the intensity values and the spot
\* attributes of the table unchanged; it changes only the gene column and,
\* for metric_decode, the distance column: the normalized arrays are copies.
C13_DecodeChangesOnlyItsColumns ==
    [][/\ codebook' = codebook
       /\ intensities'.array = intensities.array
       /\ intensities'.spot_attributes = intensities.spot_attributes
       /\ DOMAIN intensities' = DOMAIN intensities
       /\ DecodePerHybMax => intensities'.distance = intensities.distance]_vars

\* metric_decode has returned for a table with a feature that is not of unit
\* norm and a codebook with an all-zero code, which normalization changes.
C13_Witness ==
    /\ decoded
    /\ intensities.distance # None
    /\ intensities.array.data[<<1, 1, 0>>] = 2
    /\ \A c \in 0..1 : codebook.data[<<1, c, 0>>] = 0
    /\ intensities.spot_attributes = SpotAttributes(intensities.array.rows)

(***************************************************************************)
(* build_spot_traces_exact_match on an image stack of 2 rounds and 2       *)
(* channels: spots were searched in any set of (round, channel) pairs, up  *)
(* to MaxSpots were found in each, with intensity 1 or 2.                  *)
(***************************************************************************)
MaxSpots == 2

round_labels == <<0, 1>>

ch_labels == <<0, 1>>

\* The i-th spot detected in round r, channel c, with the given intensity.
Spot(i, r, c, intensity) ==
    [x |-> i, y |-> 2 * i, z |-> 0, radius |-> 1 + r + c, intensity |-> intensity]

TraceInit ==
    /\ \E ks \in SUBSET ((0..1) \X (0..1)) :
          \E counts \in [ks -> 0..MaxSpots] :
              \E values \in [ks -> [1..MaxSpots -> {1, 2}]] :
                  spot_results =
                      [k \in ks |-> [i \in 1..counts[k] |-> Spot(i, k[1], k[2], values[k][i])]]
    /\ traces = NotBuilt
    /\ CtorIdle
    /\ SynthIdle
    /\ JsonIdle
    /\ NormIdle
    /\ DecodeIdle

\* build_spot_traces_exact_match(spot_results)
BuildSpotTracesExactMatch ==
    /\ traces = NotBuilt
    /\ traces' = build_spot_traces_exact_match(spot_results, ch_labels, round_labels)
    /\ UNCHANGED <<spot_results, ctorVars, synthVars, jsonVars, normVars, decodeVars>>

TraceNext == BuildSpotTracesExactMatch

SpecTrace == TraceInit /\ [][TraceNext]_vars

\* C14: the table build_spot_traces_exact_match returns has one feature per
\* spot detected in round 0, channel 0, with that spot's attributes; for
\* every key <<r, c>> of the spot results, cell (feature i, c, r) is the
\* intensity of the i-th spot detected in <<r, c>>; the cells of the pairs
\* that are no keys are zero.
C14_ExactMatchTraces ==
    traces.status = "returned" =>
        LET it == traces.value
            reference == spot_results[<<0, 0>>]
        IN  /\ it.array.rows = Len(reference)
            /\ it.spot_attributes = spot_attributes_of(reference)
            /\ \A i \in 1..it.array.rows, r \in 0..1, c \in 0..1 :
                  IF <<r, c>> \in DOMAIN spot_results
                  THEN /\ i <= Len(spot_results[<<r, c>>])
                       /\ it.array.data[<<i, c, r>>] = spot_results[<<r, c>>][i].intensity
                  ELSE it.array.data[<<i, c, r>>] = 0


=============================================================================
